---- MODULE Spec2Model ----
(***************************************************************************)
(* Model of int_range_check (src/int_range_check.rs): IntRange descriptors *)
(* over a fixed-width integer type T, MergeRange, RangeSet and the entry   *)
(* point uncovered_and_overlapped.                                         *)
(*                                                                         *)
(* Every operator that models a function which can reach                   *)
(* MergeRange::from_range or the arithmetic of T returns a record           *)
(* [val |-> the function's value, panic |-> BOOLEAN]; panic is TRUE when   *)
(* the evaluation ran from_range with start > end (its debug_assert!) or   *)
(* evaluated x + one at x = max_value or x - one at x = min_value.         *)
(* Arithmetic wraps in the width of T.  T is modelled as the integers      *)
(* min_value..max_value.                                                   *)
(***************************************************************************)
EXTENDS Integers, Sequences, FiniteSets, TLC

\* The largest value of the modelled integer type T.
Top == 2

\* The longest input vector drawn in SpecSeq.
MaxLen == 2

\* <T as Int>::min_value() and <T as Int>::max_value()
min_value == -1
max_value == Top

Domain == min_value..max_value
Size == max_value - min_value + 1

\* Two's-complement style wrap-around into the width of T.
wrap(n) == ((n - min_value) % Size) + min_value

\* self.end + one
add_one(x) == [val |-> wrap(x + 1), panic |-> x = max_value]

\* self.start - one
sub_one(x) == [val |-> wrap(x - 1), panic |-> x = min_value]

min(a, b) == IF a <= b THEN a ELSE b
max(a, b) == IF a >= b THEN a ELSE b

\* Option<T>
None == <<>>
Some(v) == <<v>>

----------------------------------------------------------------------------
\* IntRange<T>

Bound(lo, hi) == <<"Bound", lo, hi>>
To(hi) == <<"To", hi>>
From(lo) == <<"From", lo>>
Full == <<"Full">>

IntRange ==
    {Bound(lo, hi) : lo \in Domain, hi \in Domain}
        \cup {To(hi) : hi \in Domain}
        \cup {From(lo) : lo \in Domain}
        \cup {Full}

----------------------------------------------------------------------------
\* MergeRange<T>

MergeRange == {r \in [start : Domain, end : Domain] : r.start <= r.end}

from_range(start, end) ==
    [val |-> [start |-> start, end |-> end], panic |-> ~(start <= end)]

from_range_to(end) == from_range(min_value, end)

from_range_from(start) == from_range(start, max_value)

range_full == from_range(min_value, max_value)

\* Faulty variant of concatenate: the test self.end < max_value is missing.
concatenate_unguarded(self, other) ==
    LET sum == add_one(self.end)
        fr == from_range(self.start, other.end)
    IN  IF sum.val = other.start
        THEN [val |-> Some(fr.val), panic |-> sum.panic \/ fr.panic]
        ELSE [val |-> None, panic |-> sum.panic]

concatenate(self, other) ==
    IF self.end < max_value
    THEN LET sum == add_one(self.end)
             fr == from_range(self.start, other.end)
         IN  IF sum.val = other.start
             THEN [val |-> Some(fr.val), panic |-> sum.panic \/ fr.panic]
             ELSE [val |-> None, panic |-> sum.panic]
    ELSE [val |-> None, panic |-> FALSE]

\* MergeResult<T>
Separate == <<"Separate">>
Adjacent(r) == <<"Adjacent", r>>
Overlap(u, i) == <<"Overlap", u, i>>

\* Faulty variant of merge: the second test, other.concatenate(self), is
\* missing.
merge_one_sided(self, other) ==
    LET c1 == concatenate(self, other)
    IN  IF c1.val # None
        THEN [val |-> Adjacent(c1.val[1]), panic |-> c1.panic]
        ELSE IF self.start <= other.end /\ other.start <= self.end
        THEN LET u == from_range(min(self.start, other.start),
                                 max(self.end, other.end))
                 i == from_range(max(self.start, other.start),
                                 min(self.end, other.end))
             IN  [val |-> Overlap(u.val, i.val),
                  panic |-> c1.panic \/ u.panic \/ i.panic]
        ELSE [val |-> Separate, panic |-> c1.panic]

\* Faulty variant of merge: Overlap carries (self's side first) the two
\* ranges in an order that depends on the argument order.
merge_swapped(self, other) ==
    LET c1 == concatenate(self, other)
        c2 == concatenate(other, self)
    IN  IF c1.val # None
        THEN [val |-> Adjacent(c1.val[1]), panic |-> c1.panic]
        ELSE IF c2.val # None
        THEN [val |-> Adjacent(c2.val[1]), panic |-> c1.panic \/ c2.panic]
        ELSE IF self.start <= other.end /\ other.start <= self.end
        THEN LET u == from_range(min(self.start, other.start),
                                 max(self.end, other.end))
                 i == from_range(max(self.start, other.start),
                                 min(self.end, other.end))
             IN  [val |-> IF self.start <= other.start
                          THEN Overlap(u.val, i.val)
                          ELSE Overlap(i.val, u.val),
                  panic |-> c1.panic \/ c2.panic \/ u.panic \/ i.panic]
        ELSE [val |-> Separate, panic |-> c1.panic \/ c2.panic]

\* Faulty variant of merge: the overlap test is strict, so two ranges that
\* share only an end point are taken to be separate.
merge_strict_overlap(self, other) ==
    LET c1 == concatenate(self, other)
        c2 == concatenate(other, self)
    IN  IF c1.val # None
        THEN [val |-> Adjacent(c1.val[1]), panic |-> c1.panic]
        ELSE IF c2.val # None
        THEN [val |-> Adjacent(c2.val[1]), panic |-> c1.panic \/ c2.panic]
        ELSE IF self.start < other.end /\ other.start < self.end
        THEN LET u == from_range(min(self.start, other.start),
                                 max(self.end, other.end))
                 i == from_range(max(self.start, other.start),
                                 min(self.end, other.end))
             IN  [val |-> Overlap(u.val, i.val),
                  panic |-> c1.panic \/ c2.panic \/ u.panic \/ i.panic]
        ELSE [val |-> Separate, panic |-> c1.panic \/ c2.panic]

merge(self, other) ==
    LET c1 == concatenate(self, other)
        c2 == concatenate(other, self)
    IN  IF c1.val # None
        THEN [val |-> Adjacent(c1.val[1]), panic |-> c1.panic]
        ELSE IF c2.val # None
        THEN [val |-> Adjacent(c2.val[1]), panic |-> c1.panic \/ c2.panic]
        ELSE IF self.start <= other.end /\ other.start <= self.end
        THEN LET u == from_range(min(self.start, other.start),
                                 max(self.end, other.end))
                 i == from_range(max(self.start, other.start),
                                 min(self.end, other.end))
             IN  [val |-> Overlap(u.val, i.val),
                  panic |-> c1.panic \/ c2.panic \/ u.panic \/ i.panic]
        ELSE [val |-> Separate, panic |-> c1.panic \/ c2.panic]

----------------------------------------------------------------------------
\* RangeSet<T>

new == [ranges |-> <<>>]

into_vec(self) == self.ranges

RECURSIVE push_with_overlap(_, _, _)
RECURSIVE scan(_, _, _, _, _)

\* Faulty variant of push: the range is appended to the vector as it is.
push_append(self, push_range) ==
    [val |-> [ranges |-> Append(self.ranges, push_range)], panic |-> FALSE]

push(self, push_range) ==
    LET r == push_with_overlap(self, new, push_range)
    IN  [val |-> r.val.self, panic |-> r.panic]

\* Faulty variant of scan: a separate range is never placed ahead of a
\* member, so it always ends up last.
scan_append_last(range_iter, new_ranges, new_range, overlap_set, panic) ==
    IF range_iter = <<>>
    THEN [val |-> [self |-> [ranges |-> Append(new_ranges, new_range)],
                   overlap_set |-> overlap_set],
          panic |-> panic]
    ELSE LET range == Head(range_iter)
             m == merge(range, new_range)
         IN  CASE m.val[1] = "Separate" ->
                    scan(Tail(range_iter), Append(new_ranges, range),
                         new_range, overlap_set, panic \/ m.panic)
               [] m.val[1] = "Adjacent" ->
                    scan(Tail(range_iter), new_ranges, m.val[2], overlap_set,
                         panic \/ m.panic)
               [] m.val[1] = "Overlap" ->
                    LET p == push(overlap_set, m.val[3])
                    IN  scan(Tail(range_iter), new_ranges, m.val[2], p.val,
                             panic \/ m.panic \/ p.panic)

\* Faulty variant of scan: on Overlap the intersection is not pushed into
\* overlap_set.
scan_drop_overlap(range_iter, new_ranges, new_range, overlap_set, panic) ==
    IF range_iter = <<>>
    THEN [val |-> [self |-> [ranges |-> Append(new_ranges, new_range)],
                   overlap_set |-> overlap_set],
          panic |-> panic]
    ELSE LET range == Head(range_iter)
             m == merge(range, new_range)
         IN  CASE m.val[1] = "Separate" ->
                    IF new_range.end < range.start
                    THEN [val |-> [self |-> [ranges |-> new_ranges
                                               \o <<new_range, range>>
                                               \o Tail(range_iter)],
                                   overlap_set |-> overlap_set],
                          panic |-> panic \/ m.panic]
                    ELSE scan(Tail(range_iter), Append(new_ranges, range),
                              new_range, overlap_set, panic \/ m.panic)
               [] m.val[1] = "Adjacent" ->
                    scan(Tail(range_iter), new_ranges, m.val[2], overlap_set,
                         panic \/ m.panic)
               [] m.val[1] = "Overlap" ->
                    scan(Tail(range_iter), new_ranges, m.val[2], overlap_set,
                         panic \/ m.panic)

\* The loop of push_with_overlap: range_iter is what is left of the drained
\* vector, new_ranges the vector being built, new_range the accumulator.
scan(range_iter, new_ranges, new_range, overlap_set, panic) ==
    IF range_iter = <<>>
    THEN [val |-> [self |-> [ranges |-> Append(new_ranges, new_range)],
                   overlap_set |-> overlap_set],
          panic |-> panic]
    ELSE LET range == Head(range_iter)
             m == merge(range, new_range)
         IN  CASE m.val[1] = "Separate" ->
                    IF new_range.end < range.start
                    THEN [val |-> [self |-> [ranges |-> new_ranges
                                               \o <<new_range, range>>
                                               \o Tail(range_iter)],
                                   overlap_set |-> overlap_set],
                          panic |-> panic \/ m.panic]
                    ELSE scan(Tail(range_iter), Append(new_ranges, range),
                              new_range, overlap_set, panic \/ m.panic)
               [] m.val[1] = "Adjacent" ->
                    scan(Tail(range_iter), new_ranges, m.val[2], overlap_set,
                         panic \/ m.panic)
               [] m.val[1] = "Overlap" ->
                    LET p == push(overlap_set, m.val[3])
                    IN  scan(Tail(range_iter), new_ranges, m.val[2], p.val,
                             panic \/ m.panic \/ p.panic)

push_with_overlap(self, overlap_set, push_range) ==
    scan(self.ranges, <<>>, push_range, overlap_set, FALSE)

\* The loop of from_vec_with_overlap from element i of v on.
RECURSIVE from_vec_loop(_, _, _, _, _)
from_vec_loop(v, i, range_set, overlap_set, panic) ==
    IF i > Len(v)
    THEN [val |-> <<range_set, overlap_set>>, panic |-> panic]
    ELSE LET r == push_with_overlap(range_set, overlap_set, v[i])
         IN  from_vec_loop(v, i + 1, r.val.self, r.val.overlap_set,
                           panic \/ r.panic)

from_vec_with_overlap(v) == from_vec_loop(v, 1, new, new, FALSE)

\* Faulty variant of complement_gaps: the gap at the right boundary is
\* missing.
complement_gaps_no_right(self) ==
    LET len == Len(self.ranges)
        left ==
            IF self.ranges[1].start > min_value
            THEN LET hi == sub_one(self.ranges[1].start)
                     gap == from_range_to(hi.val)
                 IN  <<[val |-> gap.val, panic |-> hi.panic \/ gap.panic]>>
            ELSE <<>>
        inner ==
            [i \in 1..(len - 1) |->
                LET lo == add_one(self.ranges[i].end)
                    hi == sub_one(self.ranges[i + 1].start)
                    gap == from_range(lo.val, hi.val)
                IN  [val |-> gap.val,
                     panic |-> lo.panic \/ hi.panic \/ gap.panic]]
    IN  left \o inner

\* Faulty variant of complement_gaps: the gap at the left boundary is
\* missing.
complement_gaps_no_left(self) ==
    LET len == Len(self.ranges)
        inner ==
            [i \in 1..(len - 1) |->
                LET lo == add_one(self.ranges[i].end)
                    hi == sub_one(self.ranges[i + 1].start)
                    gap == from_range(lo.val, hi.val)
                IN  [val |-> gap.val,
                     panic |-> lo.panic \/ hi.panic \/ gap.panic]]
        right ==
            IF self.ranges[len].end < max_value
            THEN LET lo == add_one(self.ranges[len].end)
                     gap == from_range_from(lo.val)
                 IN  <<[val |-> gap.val, panic |-> lo.panic \/ gap.panic]>>
            ELSE <<>>
    IN  inner \o right

\* The ranges complement pushes, in the order it pushes them: the gap at the
\* left boundary if any, the gap between each ranges[i-1] and ranges[i] (the
\* loop "for i in 1..len"), the gap at the right boundary if any.  self is
\* not empty.
complement_gaps(self) ==
    LET len == Len(self.ranges)
        left ==
            IF self.ranges[1].start > min_value
            THEN LET hi == sub_one(self.ranges[1].start)
                     gap == from_range_to(hi.val)
                 IN  <<[val |-> gap.val, panic |-> hi.panic \/ gap.panic]>>
            ELSE <<>>
        inner ==
            [i \in 1..(len - 1) |->
                LET lo == add_one(self.ranges[i].end)
                    hi == sub_one(self.ranges[i + 1].start)
                    gap == from_range(lo.val, hi.val)
                IN  [val |-> gap.val,
                     panic |-> lo.panic \/ hi.panic \/ gap.panic]]
        right ==
            IF self.ranges[len].end < max_value
            THEN LET lo == add_one(self.ranges[len].end)
                     gap == from_range_from(lo.val)
                 IN  <<[val |-> gap.val, panic |-> lo.panic \/ gap.panic]>>
            ELSE <<>>
    IN  left \o inner \o right

\* complement_set.push(...) for gap i of gaps and those after it.
RECURSIVE complement_push(_, _, _, _)
complement_push(gaps, i, complement_set, panic) ==
    IF i > Len(gaps)
    THEN [val |-> complement_set, panic |-> panic]
    ELSE LET p == push(complement_set, gaps[i].val)
         IN  complement_push(gaps, i + 1, p.val,
                             panic \/ gaps[i].panic \/ p.panic)

complement(self) ==
    IF Len(self.ranges) = 0
    THEN LET full == range_full
             p == push(new, full.val)
         IN  [val |-> p.val, panic |-> full.panic \/ p.panic]
    ELSE complement_push(complement_gaps(self), 1, new, FALSE)

----------------------------------------------------------------------------
\* impl IntRange<T>

\* Faulty variant of to_merge_range: Bound is translated without the test
\* start <= end.
to_merge_range_unchecked(self) ==
    CASE self[1] = "Bound" ->
            LET r == from_range(self[2], self[3])
            IN  [val |-> Some(r.val), panic |-> r.panic]
      [] self[1] = "To" ->
            LET r == from_range_to(self[2])
            IN  [val |-> Some(r.val), panic |-> r.panic]
      [] self[1] = "From" ->
            LET r == from_range_from(self[2])
            IN  [val |-> Some(r.val), panic |-> r.panic]
      [] self[1] = "Full" ->
            [val |-> Some(range_full.val), panic |-> range_full.panic]

to_merge_range(self) ==
    CASE self[1] = "Bound" ->
            IF self[2] <= self[3]
            THEN LET r == from_range(self[2], self[3])
                 IN  [val |-> Some(r.val), panic |-> r.panic]
            ELSE [val |-> None, panic |-> FALSE]
      [] self[1] = "To" ->
            LET r == from_range_to(self[2])
            IN  [val |-> Some(r.val), panic |-> r.panic]
      [] self[1] = "From" ->
            LET r == from_range_from(self[2])
            IN  [val |-> Some(r.val), panic |-> r.panic]
      [] self[1] = "Full" ->
            [val |-> Some(range_full.val), panic |-> range_full.panic]

\* Faulty variant of from_merge_range: the lower edge is taken to be zero.
from_merge_range_zero_min(merge_range) ==
    IF merge_range.start > 0
    THEN IF merge_range.end < max_value
         THEN Bound(merge_range.start, merge_range.end)
         ELSE From(merge_range.start)
    ELSE IF merge_range.end < max_value
         THEN To(merge_range.end)
         ELSE Full

from_merge_range(merge_range) ==
    IF merge_range.start > min_value
    THEN IF merge_range.end < max_value
         THEN Bound(merge_range.start, merge_range.end)
         ELSE From(merge_range.start)
    ELSE IF merge_range.end < max_value
         THEN To(merge_range.end)
         ELSE Full

\* vec.iter().map(|&x| IntRange::from_merge_range(x)).collect()
map_from_merge_range(vec) ==
    [i \in 1..Len(vec) |-> from_merge_range(vec[i])]

\* ranges.iter().filter_map(|&x| x.to_merge_range()).collect()
filter_map_to_merge_range(vec) ==
    LET conv == [i \in 1..Len(vec) |-> to_merge_range(vec[i])]
        kept == SelectSeq(conv, LAMBDA c : c.val # None)
    IN  [val |-> [i \in 1..Len(kept) |-> kept[i].val[1]],
         panic |-> \E i \in 1..Len(conv) : conv[i].panic]

uncovered_and_overlapped(vec) ==
    LET v == filter_map_to_merge_range(vec)
        sets == from_vec_with_overlap(v.val)
        uncovered_set == complement(sets.val[1])
    IN  [val |-> <<map_from_merge_range(into_vec(uncovered_set.val)),
                   map_from_merge_range(into_vec(sets.val[2]))>>,
         panic |-> v.panic \/ sets.panic \/ uncovered_set.panic]

----------------------------------------------------------------------------
\* State.
\*
\*   x              the descriptor the filter_map closure was last given
\*                  (None before the first)
\*   cover          for each value of T, how many of the descriptors consumed
\*                  so far contain it, counted up to 2
\*   range_set, overlap_set     the locals of from_vec_with_overlap
\*   uncovered_set  the local of uncovered_and_overlapped
\*   uncovered, overlapped      the two vectors returned
\*   panic          whether any evaluation so far violated a contract
\*   pc             "fold" while descriptors are consumed, "done" on return
\* Spec folds an input vector of any length, one descriptor at a time.
\* SpecSeq runs the same steps on a given vector of up to MaxLen descriptors:
\*   ranges         the argument of uncovered_and_overlapped
\*   rest           the part of it the iterator has not yet yielded
\* SpecMerge calls merge on a pair of ranges in both orders:
\*   a, b           the two ranges;  ab, ba   a.merge(b) and b.merge(a)

VARIABLES x, cover, range_set, overlap_set, uncovered_set, uncovered,
          overlapped, panic, pc, ranges, rest, a, b, ab, ba

vars == <<x, cover, range_set, overlap_set, uncovered_set, uncovered,
          overlapped, panic, pc, ranges, rest, a, b, ab, ba>>

\* Whether value v lies in descriptor d read as an interval: Bound(lo, hi) is
\* [lo, hi], To(hi) is [min, hi], From(lo) is [lo, max], Full is [min, max].
Contains(d, v) ==
    CASE d[1] = "Bound" -> d[2] <= v /\ v <= d[3]
      [] d[1] = "To" -> v <= d[2]
      [] d[1] = "From" -> d[2] <= v
      [] d[1] = "Full" -> TRUE

Locals ==
    /\ x = None
    /\ cover = [v \in Domain |-> 0]
    /\ range_set = new
    /\ overlap_set = new
    /\ uncovered_set = new
    /\ uncovered = <<>>
    /\ overlapped = <<>>
    /\ panic = FALSE

Init ==
    /\ Locals
    /\ pc = "fold"
    /\ ranges = <<>> /\ rest = <<>>
    /\ a = range_full.val /\ b = range_full.val
    /\ ab = None /\ ba = None

\* One turn of the loop of from_vec_with_overlap, fed by the filter_map of
\* uncovered_and_overlapped: descriptor d is translated and, unless it is
\* empty, pushed.
Consume(d) ==
    /\ pc = "fold"
    /\ x' = Some(d)
    /\ cover' = [v \in Domain |->
                    IF Contains(d, v) THEN min(cover[v] + 1, 2) ELSE cover[v]]
    /\ LET c == to_merge_range(d)
       IN  IF c.val = None
           THEN /\ panic' = (panic \/ c.panic)
                /\ UNCHANGED <<range_set, overlap_set>>
           ELSE LET r == push_with_overlap(range_set, overlap_set, c.val[1])
                IN  /\ range_set' = r.val.self
                    /\ overlap_set' = r.val.overlap_set
                    /\ panic' = (panic \/ c.panic \/ r.panic)
    /\ UNCHANGED <<uncovered_set, uncovered, overlapped, pc, ranges,
                   a, b, ab, ba>>

\* The rest of uncovered_and_overlapped once the input is exhausted.
Finish ==
    /\ pc = "fold"
    /\ LET c == complement(range_set)
       IN  /\ uncovered_set' = c.val
           /\ uncovered' = map_from_merge_range(into_vec(c.val))
           /\ panic' = (panic \/ c.panic)
    /\ overlapped' = map_from_merge_range(into_vec(overlap_set))
    /\ pc' = "done"
    /\ UNCHANGED <<x, cover, range_set, overlap_set, ranges, rest,
                   a, b, ab, ba>>

NextRange(d) == Consume(d) /\ UNCHANGED rest

Return == Finish

Next ==
    \/ \E d \in IntRange : NextRange(d)
    \/ Return

Spec == Init /\ [][Next]_vars

----------------------------------------------------------------------------
\* uncovered_and_overlapped on a given vector of up to MaxLen descriptors.

RECURSIVE Vecs(_)
Vecs(n) ==
    IF n = 0 THEN {<<>>}
    ELSE LET shorter == Vecs(n - 1)
         IN  shorter \cup {Append(s, d) : s \in {t \in shorter : Len(t) = n - 1},
                                          d \in IntRange}

InitSeq ==
    /\ ranges \in Vecs(MaxLen)
    /\ rest = ranges
    /\ Locals
    /\ pc = "fold"
    /\ a = range_full.val /\ b = range_full.val
    /\ ab = None /\ ba = None

NextRangeSeq ==
    /\ rest # <<>>
    /\ Consume(Head(rest))
    /\ rest' = Tail(rest)

ReturnSeq ==
    /\ rest = <<>>
    /\ Finish

NextSeq ==
    \/ NextRangeSeq
    \/ ReturnSeq

SpecSeq == InitSeq /\ [][NextSeq]_vars

----------------------------------------------------------------------------
\* merge on every pair of well-formed ranges, in both argument orders.

InitMerge ==
    /\ a \in MergeRange
    /\ b \in MergeRange
    /\ ab = None /\ ba = None
    /\ pc = "call"
    /\ Locals
    /\ ranges = <<>> /\ rest = <<>>

Merge ==
    /\ pc = "call"
    /\ ab' = Some(merge(a, b))
    /\ ba' = Some(merge(b, a))
    /\ pc' = "done"
    /\ UNCHANGED <<x, cover, range_set, overlap_set, uncovered_set, uncovered,
                   overlapped, panic, ranges, rest, a, b>>

NextMerge == Merge

SpecMerge == InitMerge /\ [][NextMerge]_vars

----------------------------------------------------------------------------
\* Vocabulary of the properties.

\* The values a RangeSet covers.
Covered(set) ==
    {v \in Domain : \E i \in 1..Len(set.ranges) :
        set.ranges[i].start <= v /\ v <= set.ranges[i].end}

\* The values a vector of descriptors covers.
Described(vec) ==
    {v \in Domain : \E i \in 1..Len(vec) : Contains(vec[i], v)}

\* Ascending by start, non-overlapping and non-adjacent.
Disjoint(set) ==
    \A i \in 1..(Len(set.ranges) - 1) :
        /\ set.ranges[i].start < set.ranges[i + 1].start
        /\ set.ranges[i].end < set.ranges[i + 1].start
        /\ set.ranges[i].end + 1 < set.ranges[i + 1].start

----------------------------------------------------------------------------
\* C1: in every state of the fold, between any two insertions, the ranges of
\* every collection built by push / push_with_overlap from the empty RangeSet
\* (range_set, overlap_set, and the complement built by push) are strictly
\* ascending by start, pairwise non-overlapping and pairwise non-adjacent.
C1_InvariantPreservation ==
    /\ Disjoint(range_set)
    /\ Disjoint(overlap_set)
    /\ Disjoint(uncovered_set)

\* An insertion has merged something (some value is covered twice) and the
\* collection still holds two separate ranges.
C1_Witness ==
    /\ pc = "fold"
    /\ Len(range_set.ranges) >= 2
    /\ Len(overlap_set.ranges) >= 1
    /\ range_set.ranges[1].end - range_set.ranges[1].start >= 1

\* C2: on return, the uncovered descriptors cover exactly the values that lie
\* in none of the input descriptors, and an empty input gives [Full].
C2_UncoveredExact ==
    pc = "done" =>
        /\ \A v \in Domain : (cover[v] = 0) <=> (v \in Described(uncovered))
        /\ (x = None => uncovered = <<Full>>)

\* A return with two separate uncovered stretches.
C2_Witness ==
    /\ pc = "done"
    /\ Len(uncovered) = 2
    /\ \E v \in Domain : cover[v] = 2

\* C3: on return, the overlapping descriptors cover exactly the values that
\* lie in two or more of the input descriptors.
C3_OverlappingExact ==
    pc = "done" =>
        \A v \in Domain : (cover[v] = 2) <=> (v \in Described(overlapped))

\* A return with two separate overlapping stretches and a value covered once.
C3_Witness ==
    /\ pc = "done"
    /\ Len(overlapped) = 2
    /\ \E v \in Domain : cover[v] = 1

\* The bounds of a descriptor read as an interval.
Lo(d) == IF d[1] \in {"Bound", "From"} THEN d[2] ELSE min_value
Hi(d) == CASE d[1] = "Bound" -> d[3]
           [] d[1] = "To" -> d[2]
           [] OTHER -> max_value

\* A vector of descriptors listed in ascending order.
Ascending(vec) ==
    \A i \in 1..(Len(vec) - 1) : Hi(vec[i]) < Lo(vec[i + 1])

\* Every reordering of a vector.
Reorderings(vec) ==
    {[i \in 1..Len(vec) |-> vec[f[i]]] : f \in Permutations(1..Len(vec))}

\* A Bound descriptor with lo > hi.
EmptyBound(d) == d[1] = "Bound" /\ d[2] > d[3]

----------------------------------------------------------------------------
C5_ComplementInvolution ==
    pc = "done" => complement(uncovered_set).val = range_set

\* The involution on a set with two ranges, the first at the lower edge of
\* the domain.
C5_Witness ==
    /\ pc = "done"
    /\ Len(range_set.ranges) = 2
    /\ range_set.ranges[1].start = min_value
    /\ range_set.ranges[2].end < max_value

\* The involution on the empty set and on the set {full range}.
C5_WitnessEmpty ==
    /\ pc = "done"
    /\ range_set = new
    /\ uncovered_set = [ranges |-> <<range_full.val>>]

\* C6: merge is symmetric: a.merge(b) = b.merge(a) as values.
C6_MergeSymmetric ==
    pc = "done" => ab = ba

\* An overlap of two ranges given with the later one first.
C6_Witness ==
    /\ pc = "done"
    /\ ab # None
    /\ ab[1].val[1] = "Overlap"
    /\ a.start > b.start
    /\ a.end > b.end

\* C7: no contract violation is reachable through the entry point: no call
\* of from_range with start > end, no end + 1 at max_value and no start - 1
\* at min_value.
C7_NoContractViolation ==
    panic = FALSE

\* A return after an empty Bound was consumed, from a set with ranges at both
\* edges of the domain.
C7_Witness ==
    /\ pc = "done"
    /\ x # None
    /\ EmptyBound(x[1])
    /\ Len(range_set.ranges) = 2
    /\ range_set.ranges[1].start = min_value
    /\ range_set.ranges[2].end = max_value

\* C8: an empty Bound translates to None, and a vector returns what the
\* vector without its empty Bounds returns.
C8_EmptyBoundIgnored ==
    /\ \A i \in 1..Len(ranges) :
          EmptyBound(ranges[i]) => to_merge_range(ranges[i]).val = None
    /\ pc = "done" =>
          uncovered_and_overlapped(
              SelectSeq(ranges, LAMBDA d : ~EmptyBound(d))).val
            = <<uncovered, overlapped>>

\* A call with an empty Bound ahead of a descriptor inside the domain.
C8_Witness ==
    /\ pc = "done"
    /\ Len(ranges) = 2
    /\ EmptyBound(ranges[1])
    /\ ~EmptyBound(ranges[2])
    /\ Len(overlapped) = 0
    /\ Len(uncovered) = 2

\* The variant from_merge_range must pick for range r, by the domain edges.
VariantByEdges(r, d) ==
    /\ (d = Bound(r.start, r.end)) <=> (r.start > min_value /\ r.end < max_value)
    /\ (d = To(r.end)) <=> (r.start = min_value /\ r.end < max_value)
    /\ (d = From(r.start)) <=> (r.start > min_value /\ r.end = max_value)
    /\ (d = Full) <=> (r.start = min_value /\ r.end = max_value)

\* A descriptor no canonical range translates to.
OffEdge(d) ==
    /\ d[1] = "Bound" => (d[2] > min_value /\ d[3] < max_value)
    /\ d[1] = "To" => d[2] < max_value
    /\ d[1] = "From" => d[2] > min_value

\* C9: each returned descriptor is the variant the domain edges of its range
\* select, so none is a Bound touching an edge, a To(max) or a From(min).
C9_VariantByEdges ==
    pc = "done" =>
        /\ Len(uncovered) = Len(uncovered_set.ranges)
        /\ Len(overlapped) = Len(overlap_set.ranges)
        /\ \A i \in 1..Len(uncovered) :
              /\ VariantByEdges(uncovered_set.ranges[i], uncovered[i])
              /\ OffEdge(uncovered[i])
        /\ \A i \in 1..Len(overlapped) :
              /\ VariantByEdges(overlap_set.ranges[i], overlapped[i])
              /\ OffEdge(overlapped[i])

\* A return whose vectors hold a To, a Bound and a From.
C9_Witness ==
    /\ pc = "done"
    /\ Len(overlapped) = 2
    /\ overlapped[1][1] = "To"
    /\ overlapped[2][1] = "From"
    /\ Len(uncovered) = 1
    /\ uncovered[1][1] = "Bound"

\* The intersections the scan of push_with_overlap finds when descriptor d
\* is pushed into set: for each member e, in order, that shares a value with
\* d, the range [max(starts), min(ends)].
RECURSIVE Intersections(_, _)
Intersections(vec, d) ==
    IF vec = <<>> THEN <<>>
    ELSE LET e == Head(vec)
         IN  IF e.start <= Hi(d) /\ Lo(d) <= e.end
             THEN <<[start |-> max(e.start, Lo(d)), end |-> min(e.end, Hi(d))]>>
                      \o Intersections(Tail(vec), d)
             ELSE Intersections(Tail(vec), d)

\* C10 as stated: each push appends the intersections found to the sink as
\* entries and keeps the entries already there as they were.
C10_Appended ==
    [][(pc' = "fold" /\ ~EmptyBound(x'[1])) =>
          overlap_set'.ranges
              = overlap_set.ranges \o Intersections(range_set.ranges, x'[1])]_vars

\* C10, amended: each push inserts the intersections found into the sink with
\* RangeSet::push, so the sink stays ascending, non-overlapping and
\* non-adjacent and covers afterwards exactly what it covered before together
\* with the values the pushed range shares with a member; a range that is
\* separate from or adjacent to every member leaves the sink as it was.
C10_Pushed ==
    [][(pc' = "fold" /\ ~EmptyBound(x'[1])) =>
          /\ Disjoint(overlap_set')
          /\ Covered(overlap_set')
                = Covered(overlap_set)
                    \cup {v \in Covered(range_set) : Contains(x'[1], v)}
          /\ (Intersections(range_set.ranges, x'[1]) = <<>>
                => overlap_set' = overlap_set)]_vars

\* The sink holds one range that two pushes built from adjacent
\* intersections, next to a value covered once.
C10_Witness ==
    /\ pc = "fold"
    /\ Len(overlap_set.ranges) = 1
    /\ overlap_set.ranges[1].end - overlap_set.ranges[1].start >= 1
    /\ x # None
    /\ Lo(x[1]) > overlap_set.ranges[1].start
    /\ \E v \in Domain : cover[v] = 1

\* Range p ends right before range q starts, in the integers (no
\* wrap-around): p.end is below max_value and p.end + 1 is q.start.
Abuts(p, q) == p.end < max_value /\ p.end + 1 = q.start

\* Ranges p and q share a value.
Shares(p, q) == p.start <= q.end /\ q.start <= p.end

\* The outcome C11 gives for the pair p, q.
Classified(p, q) ==
    IF Abuts(p, q) THEN Adjacent([start |-> p.start, end |-> q.end])
    ELSE IF Abuts(q, p) THEN Adjacent([start |-> q.start, end |-> p.end])
    ELSE IF Shares(p, q)
    THEN Overlap([start |-> min(p.start, q.start), end |-> max(p.end, q.end)],
                 [start |-> max(p.start, q.start), end |-> min(p.end, q.end)])
    ELSE Separate

\* C11: merge gives every pair of well-formed ranges the one outcome that
\* fits it: Adjacent of the joined range when one ends right before the other
\* starts, else Overlap(union, intersection) when they share a value, else
\* Separate; no pair is both adjacent and overlapping; no evaluation
\* overflows, and concatenate is None when self.end is max_value.
C11_MergeClassifies ==
    pc = "done" =>
        /\ ab[1].val = Classified(a, b)
        /\ ab[1].panic = FALSE
        /\ ba[1].val = Classified(b, a)
        /\ ba[1].panic = FALSE
        /\ ~((Abuts(a, b) \/ Abuts(b, a)) /\ Shares(a, b))
        /\ (a.end = max_value =>
               concatenate(a, b) = [val |-> None, panic |-> FALSE])

\* To(x) merged with From(x + 1), the later one first: Adjacent of the full
\* range, with the first argument ending at max_value.
C11_Witness ==
    /\ pc = "done"
    /\ a.end = max_value
    /\ a.start > min_value
    /\ b.start = min_value
    /\ ab # None
    /\ ab[1].val = Adjacent(range_full.val)

\* An overlap with a range that ends at max_value and contains the other.
C11_WitnessOverlap ==
    /\ pc = "done"
    /\ a.end = max_value
    /\ a.start < b.start
    /\ b.end < max_value
    /\ ab # None
    /\ ab[1].val = Overlap(a, b)

====
